---- MODULE Spec2Model ----
(***************************************************************************)
(* Model of scripts/generate_meta_instance.py: the clustered QAP instance  *)
(* generator generate(n, clusters, seed) and the main script that writes   *)
(* the instance file.                                                      *)
(*                                                                         *)
(* The module-level generator of Python's `random` is process-wide state.  *)
(* It is abstracted as a generator with RngMod states: a draw yields the   *)
(* current state as the fraction raw / RngMod of the unit interval and     *)
(* advances the state; random.seed(s) sets the state from s alone.         *)
(* Spec runs the generator as that deterministic stream.  SpecDraws lets   *)
(* every draw yield an arbitrary boundary fraction, which covers the       *)
(* extreme values of every draw sequence.                                  *)
(***************************************************************************)
EXTENDS Integers, Sequences, FiniteSets, TLC

VARIABLES
    rng,        \* state of the process-wide generator of module random
    pc,         \* position of the process
    mode,       \* "main": the script's call (line 56); "import": a call by an importer
    n,          \* generate's parameter n
    clusters,   \* generate's parameter clusters
    seed,       \* generate's parameter seed
    cluster_of, \* generate's local cluster_of
    D,          \* generate's local D
    F,          \* generate's local F
    i,          \* loop variable i
    j,          \* loop variable j
    log,        \* the seed, draw and write operations of the current call, in order
    prev,       \* what the caller holds of the previous call: its arguments and result
    calls,      \* number of calls of generate started
    others,     \* number of draws by other users of module random since the last return
    file,       \* content of the file args.out, a sequence of characters
    stdout      \* lines printed

vars == <<rng, pc, mode, n, clusters, seed, cluster_of, D, F, i, j, log,
          prev, calls, others, file, stdout>>

----------------------------------------------------------------------------
(* Bounds of the model *)

\* largest n of the script's call
MaxN == 4

\* largest clusters; above MaxNCall - 1, so that clusters > n happens
MaxClusters == 3

\* seeds are 0 .. MaxSeed
MaxSeed == 1

\* calls of generate by an importing program
MaxCalls == 2

\* draws by other users of module random between two calls
MaxOthers == 1

\* largest n of a call by an importing program
MaxNCall == 3

\* largest n and largest clusters under SpecDraws
MaxNDraws == 2

MaxClustersDraws == 4

----------------------------------------------------------------------------
(* module random, abstracted *)

RngMod == 128

RngStates == 0 .. (RngMod - 1)

\* random.seed(seed): the state depends on the seed alone
SeedState(s) == (s * 45 + 83) % RngMod

\* the state after one draw
Step(r) == (r * 61 + 17) % RngMod

\* random.randint(a, b) from the raw fraction u / RngMod: an integer in a..b
Randint(a, b, u) == a + ((u * (b - a + 1)) \div RngMod)

\* random.random() < 0.05 from the raw fraction u / RngMod
BelowFivePercent(u) == u * 100 < 5 * RngMod

\* the boundary fractions a draw can yield: the lowest and the highest
RawValues == {0, RngMod - 1}

----------------------------------------------------------------------------
(* generate, lines 10-46 *)

\* variant of ClusterOf: rounds to the nearest cluster instead of flooring
ClusterOfRounded(idx, c, size) == (2 * idx * c + size) \div (2 * size)

\* variant of ClusterOf: i * (clusters // n), the division taken first
ClusterOfChunked(idx, c, size) == idx * (c \div size)

\* line 13: i * clusters // n
ClusterOf(idx, c, size) == (idx * c) \div size

\* line 16, line 30: [[0]*n for _ in range(n)]
ZeroMatrix(size) == [r \in 0 .. (size - 1) |-> [c \in 0 .. (size - 1) |-> 0]]

\* variant of DistWithinValue: the offset 1 left out
DistWithinValueNoOffset(u) == Randint(0, 9, u)

\* line 24: 1 + random.randint(0,9)
DistWithinValue(u) == 1 + Randint(0, 9, u)

\* variant of DistBetweenValue: abs() left out of cd
DistBetweenValueNoAbs(ci, cj, u) == 30 + (ci - cj) * 10 + Randint(0, 19, u)

\* lines 27-28: 30 + cd*10 + random.randint(0,19)
DistBetweenValue(ci, cj, u) ==
    LET cd == IF ci >= cj THEN ci - cj ELSE cj - ci
    IN  30 + cd * 10 + Randint(0, 19, u)

\* line 38: random.randint(80,200)
FlowWithinValue(u) == Randint(80, 200, u)

\* line 43: random.randint(120,220)
FlowHeavyValue(u) == Randint(120, 220, u)

\* line 45: random.randint(5,80)
FlowCommonValue(u) == Randint(5, 80, u)

\* variant of NextCell: the loops nested the other way round (j outer, i inner)
NextCellColumnMajor(ci, cj, size) ==
    IF ci + 1 < size THEN <<ci + 1, cj>>
    ELSE IF cj + 1 < size THEN <<0, cj + 1>>
    ELSE <<size, 0>>

\* the loops "for i in range(n): for j in range(n)": the cell after (i, j)
NextCell(ci, cj, size) == IF cj + 1 < size THEN <<ci, cj + 1>> ELSE <<ci + 1, 0>>

\* records of the operations of a call
SeedOp == <<"seed", "-", 0, 0>>

DrawOp(kind, m, ci, cj) == <<kind, m, ci, cj>>

WriteOp(m, ci, cj) == <<"write", m, ci, cj>>

NoResult == [n |-> 0, clusters |-> 0, seed |-> 0, D |-> <<>>, F |-> <<>>]

Init ==
    /\ rng \in RngStates
    /\ pc = "idle"
    /\ mode = "none"
    /\ n = 0 /\ clusters = 0 /\ seed = 0
    /\ cluster_of = <<>>
    /\ D = <<>>
    /\ F = <<>>
    /\ i = 0 /\ j = 0
    /\ log = <<>>
    /\ prev = NoResult
    /\ calls = 0
    /\ others = 0
    /\ file = <<>>
    /\ stdout = <<>>

\* entry of generate with its arguments bound
Enter(size, c, s, m) ==
    /\ pc = "idle"
    /\ pc' = "seed"
    /\ mode' = m
    /\ n' = size /\ clusters' = c /\ seed' = s
    /\ cluster_of' = <<>> /\ D' = <<>> /\ F' = <<>>
    /\ i' = 0 /\ j' = 0
    /\ log' = <<>>
    /\ calls' = calls + 1
    /\ UNCHANGED <<rng, prev, others, file, stdout>>

\* line 56: the script calls generate with the parsed options
MainCall(size, c, s) ==
    /\ calls = 0
    /\ Enter(size, c, s, "main")

\* a program that imports the module calls generate
Call(size, c, s) ==
    /\ calls < MaxCalls
    /\ Enter(size, c, s, "import")

\* between calls, other code of the process draws from module random
OtherDraw ==
    /\ pc = "idle"
    /\ others < MaxOthers
    /\ rng' = Step(rng)
    /\ others' = others + 1
    /\ UNCHANGED <<pc, mode, n, clusters, seed, cluster_of, D, F, i, j, log,
                   prev, calls, file, stdout>>

\* variant of Seed: the call to random.seed left out
SeedSkipped ==
    /\ pc = "seed"
    /\ log' = Append(log, SeedOp)
    /\ pc' = "clusters"
    /\ UNCHANGED <<rng, mode, n, clusters, seed, cluster_of, D, F, i, j,
                   prev, calls, others, file, stdout>>

\* line 11: random.seed(seed)
Seed ==
    /\ pc = "seed"
    /\ rng' = SeedState(seed)
    /\ log' = Append(log, SeedOp)
    /\ pc' = "clusters"
    /\ UNCHANGED <<mode, n, clusters, seed, cluster_of, D, F, i, j,
                   prev, calls, others, file, stdout>>

\* line 13: cluster_of = [i * clusters // n for i in range(n)]
AssignClusters ==
    /\ pc = "clusters"
    /\ cluster_of' = [k \in 0 .. (n - 1) |-> ClusterOf(k, clusters, n)]
    /\ pc' = "allocD"
    /\ UNCHANGED <<rng, mode, n, clusters, seed, D, F, i, j, log,
                   prev, calls, others, file, stdout>>

\* line 16: D = [[0]*n for _ in range(n)]
AllocD ==
    /\ pc = "allocD"
    /\ D' = ZeroMatrix(n)
    /\ i' = 0 /\ j' = 0
    /\ pc' = "distance"
    /\ UNCHANGED <<rng, mode, n, clusters, seed, cluster_of, F, log,
                   prev, calls, others, file, stdout>>

\* lines 19-20: the diagonal cell of D
DistDiag ==
    /\ pc = "distance"
    /\ i < n
    /\ i = j
    /\ D' = [D EXCEPT ![i][j] = 0]
    /\ log' = Append(log, WriteOp("D", i, j))
    /\ i' = NextCell(i, j, n)[1] /\ j' = NextCell(i, j, n)[2]
    /\ UNCHANGED <<rng, pc, mode, n, clusters, seed, cluster_of, F,
                   prev, calls, others, file, stdout>>

\* lines 22-24: a cell of D inside one cluster; u is the fraction drawn
DistWithin(u) ==
    /\ pc = "distance"
    /\ i < n
    /\ i # j
    /\ cluster_of[i] = cluster_of[j]
    /\ D' = [D EXCEPT ![i][j] = DistWithinValue(u)]
    /\ rng' = Step(rng)
    /\ log' = log \o <<DrawOp("randint", "D", i, j), WriteOp("D", i, j)>>
    /\ i' = NextCell(i, j, n)[1] /\ j' = NextCell(i, j, n)[2]
    /\ UNCHANGED <<pc, mode, n, clusters, seed, cluster_of, F,
                   prev, calls, others, file, stdout>>

\* lines 25-28: a cell of D between two clusters
DistBetween(u) ==
    /\ pc = "distance"
    /\ i < n
    /\ i # j
    /\ cluster_of[i] # cluster_of[j]
    /\ D' = [D EXCEPT ![i][j] = DistBetweenValue(cluster_of[i], cluster_of[j], u)]
    /\ rng' = Step(rng)
    /\ log' = log \o <<DrawOp("randint", "D", i, j), WriteOp("D", i, j)>>
    /\ i' = NextCell(i, j, n)[1] /\ j' = NextCell(i, j, n)[2]
    /\ UNCHANGED <<pc, mode, n, clusters, seed, cluster_of, F,
                   prev, calls, others, file, stdout>>

\* line 30: F = [[0]*n for _ in range(n)], once the loops of lines 17-28 end
AllocF ==
    /\ pc = "distance"
    /\ i >= n
    /\ F' = ZeroMatrix(n)
    /\ i' = 0 /\ j' = 0
    /\ pc' = "flow"
    /\ UNCHANGED <<rng, mode, n, clusters, seed, cluster_of, D, log,
                   prev, calls, others, file, stdout>>

\* variant of FlowDiag: the test i == j left out, the diagonal cell drawn
FlowDiagDrawn ==
    /\ pc = "flow"
    /\ i < n
    /\ i = j
    /\ F' = [F EXCEPT ![i][j] = FlowWithinValue(rng)]
    /\ rng' = Step(rng)
    /\ log' = log \o <<DrawOp("randint", "F", i, j), WriteOp("F", i, j)>>
    /\ i' = NextCell(i, j, n)[1] /\ j' = NextCell(i, j, n)[2]
    /\ UNCHANGED <<pc, mode, n, clusters, seed, cluster_of, D,
                   prev, calls, others, file, stdout>>

\* lines 33-34: the diagonal cell of F
FlowDiag ==
    /\ pc = "flow"
    /\ i < n
    /\ i = j
    /\ F' = [F EXCEPT ![i][j] = 0]
    /\ log' = Append(log, WriteOp("F", i, j))
    /\ i' = NextCell(i, j, n)[1] /\ j' = NextCell(i, j, n)[2]
    /\ UNCHANGED <<rng, pc, mode, n, clusters, seed, cluster_of, D,
                   prev, calls, others, file, stdout>>

\* lines 36-38: a cell of F inside one cluster
FlowWithin(u) ==
    /\ pc = "flow"
    /\ i < n
    /\ i # j
    /\ cluster_of[i] = cluster_of[j]
    /\ F' = [F EXCEPT ![i][j] = FlowWithinValue(u)]
    /\ rng' = Step(rng)
    /\ log' = log \o <<DrawOp("randint", "F", i, j), WriteOp("F", i, j)>>
    /\ i' = NextCell(i, j, n)[1] /\ j' = NextCell(i, j, n)[2]
    /\ UNCHANGED <<pc, mode, n, clusters, seed, cluster_of, D,
                   prev, calls, others, file, stdout>>

\* lines 41-43: a cell of F between two clusters, random.random() < 0.05;
\* u is the fraction random.random() draws, v the one randint draws after it
FlowHeavy(u, v) ==
    /\ pc = "flow"
    /\ i < n
    /\ i # j
    /\ cluster_of[i] # cluster_of[j]
    /\ BelowFivePercent(u)
    /\ F' = [F EXCEPT ![i][j] = FlowHeavyValue(v)]
    /\ rng' = Step(Step(rng))
    /\ log' = log \o <<DrawOp("random", "F", i, j), DrawOp("randint", "F", i, j),
                       WriteOp("F", i, j)>>
    /\ i' = NextCell(i, j, n)[1] /\ j' = NextCell(i, j, n)[2]
    /\ UNCHANGED <<pc, mode, n, clusters, seed, cluster_of, D,
                   prev, calls, others, file, stdout>>

\* variant of FlowCommon: the fraction of line 41 reused as the magnitude
FlowCommonOneDraw(u, v) ==
    /\ pc = "flow"
    /\ i < n
    /\ i # j
    /\ cluster_of[i] # cluster_of[j]
    /\ ~BelowFivePercent(u)
    /\ F' = [F EXCEPT ![i][j] = FlowCommonValue(u)]
    /\ rng' = Step(rng)
    /\ log' = log \o <<DrawOp("random", "F", i, j), WriteOp("F", i, j)>>
    /\ i' = NextCell(i, j, n)[1] /\ j' = NextCell(i, j, n)[2]
    /\ UNCHANGED <<pc, mode, n, clusters, seed, cluster_of, D,
                   prev, calls, others, file, stdout>>

\* lines 41, 44-45: a cell of F between two clusters, random.random() >= 0.05
FlowCommon(u, v) ==
    /\ pc = "flow"
    /\ i < n
    /\ i # j
    /\ cluster_of[i] # cluster_of[j]
    /\ ~BelowFivePercent(u)
    /\ F' = [F EXCEPT ![i][j] = FlowCommonValue(v)]
    /\ rng' = Step(Step(rng))
    /\ log' = log \o <<DrawOp("random", "F", i, j), DrawOp("randint", "F", i, j),
                       WriteOp("F", i, j)>>
    /\ i' = NextCell(i, j, n)[1] /\ j' = NextCell(i, j, n)[2]
    /\ UNCHANGED <<pc, mode, n, clusters, seed, cluster_of, D,
                   prev, calls, others, file, stdout>>

\* variant of Return: generate prints before it returns
ReturnPrints ==
    /\ pc = "flow"
    /\ i >= n
    /\ stdout' = Append(stdout, <<"generated", n>>)
    /\ pc' = "returned"
    /\ UNCHANGED <<rng, mode, n, clusters, seed, cluster_of, D, F, i, j, log,
                   prev, calls, others, file>>

\* line 46: return D, F, once the loops of lines 31-45 end
Return ==
    /\ pc = "flow"
    /\ i >= n
    /\ pc' = "returned"
    /\ UNCHANGED <<rng, mode, n, clusters, seed, cluster_of, D, F, i, j, log,
                   prev, calls, others, file, stdout>>

\* the importer takes the result and is free to call again
Resume ==
    /\ pc = "returned"
    /\ mode = "import"
    /\ prev' = [n |-> n, clusters |-> clusters, seed |-> seed, D |-> D, F |-> F]
    /\ others' = 0
    /\ pc' = "idle"
    /\ UNCHANGED <<rng, mode, n, clusters, seed, cluster_of, D, F, i, j, log,
                   calls, file, stdout>>

----------------------------------------------------------------------------
(* the main script, lines 48-65 *)

\* default of --out, line 53
OutPath == "instances/meta_massive_50.txt"

DigitChars == <<"0", "1", "2", "3", "4", "5", "6", "7", "8", "9">>

\* str(x) of an integer x, as a sequence of characters
RECURSIVE StrNat(_)
StrNat(x) ==
    IF x < 10 THEN <<DigitChars[x + 1]>>
    ELSE Append(StrNat(x \div 10), DigitChars[(x % 10) + 1])

Str(x) == IF x < 0 THEN <<"-">> \o StrNat(0 - x) ELSE StrNat(x)

\* ' '.join(str(x) for x in row), with row a function on 0 .. size-1
RECURSIVE JoinFrom(_, _, _)
JoinFrom(row, k, size) ==
    IF k >= size THEN <<>>
    ELSE IF k = size - 1 THEN Str(row[k])
    ELSE Str(row[k]) \o <<" ">> \o JoinFrom(row, k + 1, size)

\* variant of Join: a space after every value, the last one included
RECURSIVE JoinTrailingFrom(_, _, _)
JoinTrailingFrom(row, k, size) ==
    IF k >= size THEN <<>>
    ELSE Str(row[k]) \o <<" ">> \o JoinTrailingFrom(row, k + 1, size)

JoinTrailing(row, size) == JoinTrailingFrom(row, 0, size)

Join(row, size) == JoinFrom(row, 0, size)

\* lines 61, 63: ' '.join(str(x) for x in M[i]) + '\n'
RowLine(row, size) == Join(row, size) \o <<"\n">>

\* line 59: str(args.n) + "\n"
HeaderLine(size) == Str(size) \o <<"\n">>

\* line 58: open(args.out, 'w') succeeds and truncates the file
Open ==
    /\ pc = "returned"
    /\ mode = "main"
    /\ file' = <<>>
    /\ pc' = "header"
    /\ UNCHANGED <<rng, mode, n, clusters, seed, cluster_of, D, F, i, j, log,
                   prev, calls, others, stdout>>

\* line 58: open(args.out, 'w') raises (the directory is missing)
OpenFail ==
    /\ pc = "returned"
    /\ mode = "main"
    /\ pc' = "error"
    /\ UNCHANGED <<rng, mode, n, clusters, seed, cluster_of, D, F, i, j, log,
                   prev, calls, others, file, stdout>>

\* line 59: fh.write(str(args.n) + "\n")
WriteHeader ==
    /\ pc = "header"
    /\ file' = file \o HeaderLine(n)
    /\ i' = 0
    /\ pc' = "rowsD"
    /\ UNCHANGED <<rng, mode, n, clusters, seed, cluster_of, D, F, j, log,
                   prev, calls, others, stdout>>

\* lines 60-61: one row of D
WriteDRow ==
    /\ pc = "rowsD"
    /\ i < n
    /\ file' = file \o RowLine(D[i], n)
    /\ i' = IF i + 1 < n THEN i + 1 ELSE 0
    /\ pc' = IF i + 1 < n THEN "rowsD" ELSE "rowsF"
    /\ UNCHANGED <<rng, mode, n, clusters, seed, cluster_of, D, F, j, log,
                   prev, calls, others, stdout>>

\* lines 62-63: one row of F
WriteFRow ==
    /\ pc = "rowsF"
    /\ i < n
    /\ file' = file \o RowLine(F[i], n)
    /\ i' = i + 1
    /\ pc' = IF i + 1 < n THEN "rowsF" ELSE "print"
    /\ UNCHANGED <<rng, mode, n, clusters, seed, cluster_of, D, F, j, log,
                   prev, calls, others, stdout>>

\* line 65: print('Wrote', args.out, 'n=', ..., 'clusters=', ..., 'seed=', ...)
PrintWrote ==
    /\ pc = "print"
    /\ stdout' = Append(stdout, <<"Wrote", OutPath, "n=", n, "clusters=", clusters,
                                  "seed=", seed>>)
    /\ pc' = "exit"
    /\ UNCHANGED <<rng, mode, n, clusters, seed, cluster_of, D, F, i, j, log,
                   prev, calls, others, file>>

----------------------------------------------------------------------------
(* the specifications *)

\* the generator is the deterministic stream: each draw yields the state
Next ==
    \/ \E size \in 1 .. MaxN, c \in 1 .. MaxClusters, s \in 0 .. MaxSeed :
           MainCall(size, c, s)
    \/ \E size \in 1 .. MaxNCall, c \in 1 .. MaxClusters, s \in 0 .. MaxSeed :
           Call(size, c, s)
    \/ OtherDraw
    \/ Seed
    \/ AssignClusters
    \/ AllocD
    \/ DistDiag
    \/ DistWithin(rng)
    \/ DistBetween(rng)
    \/ AllocF
    \/ FlowDiag
    \/ FlowWithin(rng)
    \/ FlowHeavy(rng, Step(rng))
    \/ FlowCommon(rng, Step(rng))
    \/ Return
    \/ Resume
    \/ Open
    \/ OpenFail
    \/ WriteHeader
    \/ WriteDRow
    \/ WriteFRow
    \/ PrintWrote

Spec == Init /\ [][Next]_vars

\* one call of generate in which every draw yields an arbitrary boundary fraction
NextDraws ==
    \/ \E size \in 1 .. MaxNDraws, c \in 1 .. MaxClustersDraws :
           calls = 0 /\ Call(size, c, 0)
    \/ Seed
    \/ AssignClusters
    \/ AllocD
    \/ DistDiag
    \/ \E u \in RawValues : DistWithin(u)
    \/ \E u \in RawValues : DistBetween(u)
    \/ AllocF
    \/ FlowDiag
    \/ \E u \in RawValues : FlowWithin(u)
    \/ \E u, v \in RawValues : FlowHeavy(u, v)
    \/ \E u, v \in RawValues : FlowCommon(u, v)
    \/ Return

SpecDraws == Init /\ [][NextDraws]_vars

----------------------------------------------------------------------------
(* helpers of the properties *)

Cells == (0 .. (n - 1)) \X (0 .. (n - 1))

Abs(x) == IF x < 0 THEN 0 - x ELSE x

\* positions at which generate is running
CallPcs == {"seed", "clusters", "allocD", "distance", "flow"}

\* positions at which D has been allocated, and at which F has
HasD == {"distance", "flow", "returned", "header", "rowsD", "rowsF", "print",
         "exit", "error"}

HasF == HasD \ {"distance"}

\* positions at which generate has returned D and F to the running caller
Returned == HasF \ {"flow"}

IsSquare(M, size) ==
    /\ DOMAIN M = 0 .. (size - 1)
    /\ \A r \in 0 .. (size - 1) : DOMAIN M[r] = 0 .. (size - 1)

IsDraw(op) == op[1] \in {"random", "randint"}

IsWrite(op) == op[1] = "write"

SameCell(op1, op2) == op1[2] = op2[2] /\ op1[3] = op2[3] /\ op1[4] = op2[4]

NumDraws(ops) == Cardinality({k \in DOMAIN ops : IsDraw(ops[k])})

RECURSIVE StepN(_, _)
StepN(r, k) == IF k = 0 THEN r ELSE StepN(Step(r), k - 1)

\* the place of an operation in the order "D before F, row by row, left to right"
Key(op) == (IF op[2] = "F" THEN n * n ELSE 0) + op[3] * n + op[4]

\* the number of locations of cluster c
ClusterSize(c) == Cardinality({a \in DOMAIN cluster_of : cluster_of[a] = c})

\* reading the instance file back: the lines a sequence of characters holds,
\* each ended by a newline, and what follows the last newline
RECURSIVE LinesFrom(_, _, _)
LinesFrom(chars, k, cur) ==
    IF k > Len(chars) THEN <<>>
    ELSE IF chars[k] = "\n" THEN <<cur>> \o LinesFrom(chars, k + 1, <<>>)
    ELSE LinesFrom(chars, k + 1, Append(cur, chars[k]))

LinesOf(chars) == LinesFrom(chars, 1, <<>>)

EndsWithNewline(chars) == chars # <<>> /\ chars[Len(chars)] = "\n"

\* the fields of a line, separated by single spaces
RECURSIVE FieldsFrom(_, _, _)
FieldsFrom(line, k, cur) ==
    IF k > Len(line) THEN <<cur>>
    ELSE IF line[k] = " " THEN <<cur>> \o FieldsFrom(line, k + 1, <<>>)
    ELSE FieldsFrom(line, k + 1, Append(cur, line[k]))

FieldsOf(line) == FieldsFrom(line, 1, <<>>)

IsNumber(field) ==
    /\ field # <<>>
    /\ \A k \in DOMAIN field : \E d \in 1 .. 10 : DigitChars[d] = field[k]

DigitValue(ch) == (CHOOSE d \in 1 .. 10 : DigitChars[d] = ch) - 1

RECURSIVE ParseInt(_)
ParseInt(field) ==
    IF field = <<>> THEN 0
    ELSE 10 * ParseInt(SubSeq(field, 1, Len(field) - 1)) + DigitValue(field[Len(field)])

\* the lines from..from+size-1 hold the rows of M
RowsParse(ls, from, M, size) ==
    \A r \in 0 .. (size - 1) :
        LET fs == FieldsOf(ls[from + r])
        IN  /\ Len(fs) = size
            /\ \A c \in 0 .. (size - 1) :
                   IsNumber(fs[c + 1]) /\ ParseInt(fs[c + 1]) = M[r][c]

----------------------------------------------------------------------------
(* the properties *)

\* C1: determinism of generate.  A call that returns with the same (n, clusters,
\* seed) as the call before it returns the same D and the same F, whatever the
\* generator state was before either call.
Determinism ==
    (pc = "returned" /\ prev.n = n /\ prev.clusters = clusters /\ prev.seed = seed)
        => (D = prev.D /\ F = prev.F)

\* a second call with the arguments of the first has returned, after another user
\* drew from the generator in between, and the matrices hold drawn values
DeterminismWitness ==
    /\ pc = "returned"
    /\ prev.n = n /\ prev.clusters = clusters /\ prev.seed = seed
    /\ n = 3 /\ clusters = 2
    /\ others >= 1

\* C2: range bounds of the result, for every sequence of draws.  For i # j in one
\* cluster D[i][j] is in 1..10 and F[i][j] in 80..200; in different clusters, with
\* cd = |cluster_of[i] - cluster_of[j]|, D[i][j] is in 30+cd*10 .. 30+cd*10+19 and
\* F[i][j] is in 5..80 or in 120..220.
RangeBounds ==
    pc = "returned" =>
        \A cell \in Cells :
            LET a == cell[1]
                b == cell[2]
                cd == Abs(cluster_of[a] - cluster_of[b])
            IN  a # b =>
                    IF cluster_of[a] = cluster_of[b]
                    THEN D[a][b] \in 1 .. 10 /\ F[a][b] \in 80 .. 200
                    ELSE /\ D[a][b] \in (30 + cd * 10) .. (30 + cd * 10 + 19)
                         /\ (F[a][b] \in 5 .. 80 \/ F[a][b] \in 120 .. 220)

\* a result two clusters apart whose cells sit on the ends of their ranges
RangeBoundsWitness ==
    /\ pc = "returned"
    /\ n = 2
    /\ Abs(cluster_of[0] - cluster_of[1]) = 2
    /\ D[0][1] = 50 /\ D[1][0] = 69
    /\ F[0][1] = 220 /\ F[1][0] = 5

\* C3: zero diagonal and shape.  From its allocation on, in every state of the
\* fill loops and in the result, each matrix is n x n with a zero diagonal, and no
\* draw is made for a diagonal cell.
ZeroDiagonalAndShape ==
    /\ pc \in HasD => (IsSquare(D, n) /\ \A k \in 0 .. (n - 1) : D[k][k] = 0)
    /\ pc \in HasF => (IsSquare(F, n) /\ \A k \in 0 .. (n - 1) : F[k][k] = 0)
    /\ \A k \in DOMAIN log : IsDraw(log[k]) => log[k][3] # log[k][4]

\* in the middle of the flow loop, past a diagonal cell, with drawn cells around it
ZeroDiagonalWitness ==
    /\ pc = "flow"
    /\ n = 3
    /\ i = 1 /\ j = 2
    /\ D[1][0] # 0 /\ F[1][0] # 0

\* C4: cluster monotonicity.  cluster_of is non-decreasing over the indices
\* 0..n-1 and every value lies in 0..clusters-1, also when clusters > n.
ClusterMonotone ==
    cluster_of # <<>> =>
        /\ DOMAIN cluster_of = 0 .. (n - 1)
        /\ \A a \in 0 .. (n - 1) : cluster_of[a] \in 0 .. (clusters - 1)
        /\ \A a \in 0 .. (n - 2) : cluster_of[a] <= cluster_of[a + 1]

\* more clusters than locations
ClusterMonotoneWitness ==
    /\ pc = "allocD"
    /\ n = 2 /\ clusters = 3
    /\ cluster_of[0] = 0 /\ cluster_of[1] = 1

\* C5: serialization round trip.  After a successful run the file is 1 + 2n lines,
\* none blank, nothing after the last newline; line 1 reads back as n, the next n
\* lines as the rows of D and the next n lines as the rows of F, each row as
\* exactly n space-separated integers.
RoundTrip ==
    pc = "exit" =>
        LET ls == LinesOf(file)
        IN  /\ EndsWithNewline(file)
            /\ Len(ls) = 1 + 2 * n
            /\ \A k \in DOMAIN ls : ls[k] # <<>>
            /\ IsNumber(ls[1]) /\ ParseInt(ls[1]) = n
            /\ RowsParse(ls, 2, D, n)
            /\ RowsParse(ls, 2 + n, F, n)

\* a run that wrote values of one, two and three digits
RoundTripWitness ==
    /\ pc = "exit"
    /\ n = 3
    /\ \E cell \in Cells : D[cell[1]][cell[2]] \in 1 .. 9
    /\ \E cell \in Cells : D[cell[1]][cell[2]] \in 10 .. 99
    /\ \E cell \in Cells : F[cell[1]][cell[2]] >= 100

\* C6 as stated: no step of generate changes the process-wide generator.
GeneratorUntouched == [][(pc \in CallPcs) => (rng' = rng)]_vars

\* C6 as amended: generate writes no file and prints nothing, and the one thing it
\* changes besides its result is the process-wide generator, which it leaves in
\* the state reached from the seed's state by the draws of the call.
GenerateEffect ==
    [][/\ pc \in CallPcs => UNCHANGED <<file, stdout>>
       /\ (pc \in CallPcs /\ pc' = "returned")
              => (rng' = StepN(SeedState(seed'), NumDraws(log')))]_vars

\* a call that drew has returned and has moved the generator off the seed's state
GenerateEffectWitness ==
    /\ pc = "returned"
    /\ NumDraws(log) >= 4
    /\ rng # SeedState(seed)
    /\ file = <<>> /\ stdout = <<>>

\* C7 as stated: generate(4, 2, 0) has cluster_of = [0,0,1,1], D[0][0] = 0,
\* D[0][2] in 30..49, F[0][1] in 80..200 and F[0][2] in 5..80 or 120..220.
ScenarioAsStated ==
    (pc = "returned" /\ n = 4 /\ clusters = 2 /\ seed = 0) =>
        /\ cluster_of = [a \in 0 .. 3 |-> IF a < 2 THEN 0 ELSE 1]
        /\ D[0][0] = 0
        /\ D[0][2] \in 30 .. 49
        /\ F[0][1] \in 80 .. 200
        /\ (F[0][2] \in 5 .. 80 \/ F[0][2] \in 120 .. 220)

\* C7 as amended: the same, with D[0][2] in 40..59 (30 + cd*10 with cd = 1 is 40).
Scenario ==
    (pc = "returned" /\ n = 4 /\ clusters = 2 /\ seed = 0) =>
        /\ cluster_of = [a \in 0 .. 3 |-> IF a < 2 THEN 0 ELSE 1]
        /\ D[0][0] = 0
        /\ D[0][2] \in 40 .. 59
        /\ F[0][1] \in 80 .. 200
        /\ (F[0][2] \in 5 .. 80 \/ F[0][2] \in 120 .. 220)

\* generate(4, 2, 0) has returned
ScenarioWitness ==
    /\ pc = "returned" /\ n = 4 /\ clusters = 2 /\ seed = 0
    /\ D[0][2] >= 50

\* the draws logged right before the write at position k, for the cell written
DrawsBefore(k, d) ==
    /\ k - d >= 1
    /\ \A m \in (k - d) .. (k - 1) : IsDraw(log[m]) /\ SameCell(log[m], log[k])
    /\ (k - d - 1 >= 1) => ~IsDraw(log[k - d - 1])

\* every draw belongs to the cell that is written next
DrawsAreForWrittenCells ==
    \A k \in DOMAIN log :
        IsDraw(log[k]) =>
            /\ k < Len(log)
            /\ (IsDraw(log[k + 1]) \/ IsWrite(log[k + 1]))
            /\ SameCell(log[k], log[k + 1])

\* C8 as stated: an off-diagonal flow cell between two clusters takes two draws
\* in the heavy branch and one in the common branch; a flow cell inside a cluster
\* and every off-diagonal distance cell take one.
DrawCountAsStated ==
    /\ DrawsAreForWrittenCells
    /\ \A k \in DOMAIN log :
           (IsWrite(log[k]) /\ log[k][3] # log[k][4]) =>
               LET a == log[k][3]
                   b == log[k][4]
               IN  IF log[k][2] = "F" /\ cluster_of[a] # cluster_of[b]
                   THEN IF F[a][b] \in 120 .. 220
                        THEN DrawsBefore(k, 2)
                        ELSE DrawsBefore(k, 1)
                   ELSE DrawsBefore(k, 1)

\* C8 as amended: an off-diagonal flow cell between two clusters takes two draws
\* in either branch, random.random() and then one random.randint; a flow cell
\* inside a cluster and every off-diagonal distance cell take one.
DrawCount ==
    /\ DrawsAreForWrittenCells
    /\ \A k \in DOMAIN log :
           (IsWrite(log[k]) /\ log[k][3] # log[k][4]) =>
               LET a == log[k][3]
                   b == log[k][4]
               IN  IF log[k][2] = "F" /\ cluster_of[a] # cluster_of[b]
                   THEN /\ DrawsBefore(k, 2)
                        /\ log[k - 2][1] = "random"
                        /\ log[k - 1][1] = "randint"
                   ELSE DrawsBefore(k, 1) /\ log[k - 1][1] = "randint"

\* a result with a heavy and a common flow between clusters and a flow inside one
DrawCountWitness ==
    /\ pc = "returned"
    /\ \E cell \in Cells :
           /\ cluster_of[cell[1]] # cluster_of[cell[2]]
           /\ F[cell[1]][cell[2]] \in 120 .. 220
    /\ \E cell \in Cells :
           /\ cluster_of[cell[1]] # cluster_of[cell[2]]
           /\ F[cell[1]][cell[2]] \in 5 .. 80
    /\ \E cell \in Cells :
           /\ cell[1] # cell[2]
           /\ cluster_of[cell[1]] = cluster_of[cell[2]]

\* C9: draw ordering.  The generator is seeded once, before any draw or write;
\* the cells of each matrix are visited row by row, left to right; all operations
\* on D come before all operations on F, the first of which follows the write of
\* D[n-1][n-1].
DrawOrdering ==
    /\ \A k \in DOMAIN log : (log[k] = SeedOp) <=> (k = 1)
    /\ \A k \in 2 .. (Len(log) - 1) :
           /\ Key(log[k]) <= Key(log[k + 1])
           /\ IsWrite(log[k]) => Key(log[k]) < Key(log[k + 1])
           /\ (log[k][2] = "D" /\ log[k + 1][2] = "F")
                  => log[k] = WriteOp("D", n - 1, n - 1)
    /\ Len(log) >= 2 => log[2] = WriteOp("D", 0, 0)
    /\ pc \in Returned => Cardinality({k \in DOMAIN log : IsWrite(log[k])}) = 2 * n * n

\* the flow loop has drawn for its first cells, after a complete distance loop
DrawOrderingWitness ==
    /\ pc = "flow"
    /\ n = 3
    /\ i = 1 /\ j = 0
    /\ NumDraws(log) >= 8

\* C10: cluster balance.  Whenever n >= clusters, every cluster 0..clusters-1 has
\* a location and holds either floor(n/clusters) or ceil(n/clusters) of them, so
\* any two clusters differ by at most one location.
ClusterBalance ==
    (cluster_of # <<>> /\ n >= clusters) =>
        /\ \A c \in 0 .. (clusters - 1) :
               /\ ClusterSize(c) >= 1
               /\ ClusterSize(c) \in {n \div clusters, (n + clusters - 1) \div clusters}
        /\ \A c1, c2 \in 0 .. (clusters - 1) :
               Abs(ClusterSize(c1) - ClusterSize(c2)) <= 1

\* n is no multiple of clusters: the clusters are of two sizes
ClusterBalanceWitness ==
    /\ pc = "allocD"
    /\ n = 4 /\ clusters = 3
    /\ \E c1, c2 \in 0 .. 2 : ClusterSize(c1) = 2 /\ ClusterSize(c2) = 1

====
